---- MODULE Spec2Model ----
(***************************************************************************)
(* CONV_2D and DEPTHWISE_CONV_2D Eval of the instrumented TFLite-Micro     *)
(* kernels (conv.cc, depthwise_conv.cc, data_capture.h).                   *)
(*                                                                         *)
(* The host runtime invokes Eval on a node (ConvEval / DepthwiseConvEval), *)
(* observes the status it returns and goes on (Return).  The function      *)
(* statics conv_bn_counter, has_printed_debug_data and dw_bn_counter live  *)
(* across invocations.  `call` is the node being evaluated, `result` what  *)
(* the invocation did.                                                     *)
(***************************************************************************)
EXTENDS Integers, Sequences, FiniteSets, TLC

VARIABLES conv_bn_counter, has_printed_debug_data, dw_bn_counter,
          expansion_pre_dumps, expansion_post_dumps, bn5_dumps,
          crashed, call, result, shadow

vars == <<conv_bn_counter, has_printed_debug_data, dw_bn_counter,
          expansion_pre_dumps, expansion_post_dumps, bn5_dumps,
          crashed, call, result, shadow>>

\* Bounds of the exploration.
MaxCounter == 5
MaxDumps == 2

\* The bottleneck block the instrumentation captures (counter value).
TargetBlock == 4
\* Number of leading bytes the expansion dump reads from input and filter.
DumpLen == 16

(***************************************************************************)
(* Tensors                                                                 *)
(***************************************************************************)
kTfLiteFloat32 == "kTfLiteFloat32"
kTfLiteInt32 == "kTfLiteInt32"
kTfLiteInt64 == "kTfLiteInt64"
kTfLiteInt16 == "kTfLiteInt16"
kTfLiteInt8 == "kTfLiteInt8"
kTfLiteInt4 == "kTfLiteInt4"
nullptr == "nullptr"

kTfLiteOk == "kTfLiteOk"
kTfLiteError == "kTfLiteError"
Crash == "crash"

\* Element representations an activation or filter tensor is drawn with.
DataTypes == {kTfLiteFloat32, kTfLiteInt8, kTfLiteInt16, kTfLiteInt4}
\* Representations of the bias tensor; nullptr: the node has two inputs.
BiasTypes == {nullptr, kTfLiteFloat32, kTfLiteInt32, kTfLiteInt64}

FlatSize(shape) == shape[1] * shape[2] * shape[3] * shape[4]

\* Bytes of a tensor buffer: packed 4-bit holds two elements per byte.
TensorBytes(shape, type) ==
  CASE type = kTfLiteInt4 -> (FlatSize(shape) + 1) \div 2
    [] type = kTfLiteInt8 -> FlatSize(shape)
    [] type = kTfLiteInt16 -> 2 * FlatSize(shape)
    [] type = kTfLiteInt64 -> 8 * FlatSize(shape)
    [] OTHER -> 4 * FlatSize(shape)

NoData == [kind |-> "none"]
NoCall == [op |-> "none"]
NoResult == [status |-> "none"]
NoShadow == [live |-> FALSE]

(***************************************************************************)
(* Kernels the two Eval functions call (reference_ops,                     *)
(* reference_integer_ops, tensor_utils)                                    *)
(***************************************************************************)
Pow2(n) == 2 ^ n

RECURSIVE SumTo(_, _)
SumTo(f, n) == IF n = 0 THEN 0 ELSE f[n] + SumTo(f, n - 1)

Abs(x) == IF x < 0 THEN -x ELSE x
Clamp(x, lo, hi) == IF x < lo THEN lo ELSE IF x > hi THEN hi ELSE x

\* Index (from 1) of element (i0, i1, i2, i3) in a flat rank-4 buffer.
Offset(shape, i0, i1, i2, i3) ==
  ((i0 * shape[2] + i1) * shape[3] + i2) * shape[4] + i3 + 1

\* High 32 bits of the doubled 64-bit product a * b, rounded to nearest
\* with halves away from zero, for a multiplier b >= 0.  The 64-bit product
\* is carried as two limbs (b = bh * 2^16 + bl), which is exact for
\* |a| < 2^14.
SaturatingRoundingDoublingHighMul(a, b) ==
  LET bh == b \div Pow2(16)
      bl == b % Pow2(16)
      nudge == IF a >= 0 THEN Pow2(30) ELSE Pow2(30) - 1
      mag == (Abs(a) * bh + (Abs(a) * bl + nudge) \div Pow2(16)) \div Pow2(15)
  IN IF a >= 0 THEN mag ELSE -mag

\* x / 2^exponent rounded to nearest, halves away from zero.
RoundingDivideByPOT(x, exponent) ==
  LET mask == Pow2(exponent) - 1
      remainder == x % Pow2(exponent)
      threshold == (mask \div 2) + (IF x < 0 THEN 1 ELSE 0)
  IN (x \div Pow2(exponent)) + (IF remainder > threshold THEN 1 ELSE 0)

\* Requantization of a 32-bit accumulator.
MultiplyByQuantizedMultiplier(x, quantized_multiplier, shift) ==
  LET left_shift == IF shift > 0 THEN shift ELSE 0
      right_shift == IF shift > 0 THEN 0 ELSE -shift
  IN RoundingDivideByPOT(
       SaturatingRoundingDoublingHighMul(x * Pow2(left_shift),
                                         quantized_multiplier),
       right_shift)

\* Requantization of a 64-bit accumulator (16-bit input, 64-bit bias).
MultiplyByQuantizedMultiplier64(x, quantized_multiplier, shift) ==
  LET reduced_multiplier ==
        IF quantized_multiplier < Pow2(15) * (Pow2(16) - 1)
          THEN (quantized_multiplier + Pow2(15)) \div Pow2(16)
          ELSE Pow2(15) - 1
      total_shift == 15 - shift
  IN (x * reduced_multiplier + Pow2(total_shift - 1)) \div Pow2(total_shift)

\* tensor_utils::UnpackDenseInt4IntoInt8: element 2i is the sign-extended
\* low nibble of byte i, element 2i+1 its sign-extended high nibble.
SignExtendNibble(n) == IF n >= 8 THEN n - 16 ELSE n
LowNibble(byte) == SignExtendNibble(byte % 16)
HighNibble(byte) == byte \div 16
UnpackDenseInt4IntoInt8(src, num_elements) ==
  [i \in 1..num_elements |->
     IF i % 2 = 1 THEN LowNibble(src[(i + 1) \div 2])
                  ELSE HighNibble(src[i \div 2])]

\* Accumulator of output element (n, oy, ox, oc) of a standard convolution:
\* the sum over the receptive field; padding positions contribute zero.
ConvAcc(P, n, oy, ox, oc) ==
  LET KH == P.filter_shape[2]
      KW == P.filter_shape[3]
      IC == P.filter_shape[4]
      term == [k \in 1..(KH * KW * IC) |->
                 LET ic == (k - 1) % IC
                     kx == ((k - 1) \div IC) % KW
                     ky == (k - 1) \div (IC * KW)
                     iy == oy * P.stride - P.pad + ky
                     ix == ox * P.stride - P.pad + kx
                 IN IF iy >= 0 /\ iy < P.input_shape[2]
                         /\ ix >= 0 /\ ix < P.input_shape[3]
                      THEN P.filter[Offset(P.filter_shape, oc, ky, kx, ic)]
                             * (P.input[Offset(P.input_shape, n, iy, ix, ic)]
                                  + P.input_offset)
                      ELSE 0]
  IN SumTo(term, KH * KW * IC)

\* Accumulator of output element (n, oy, ox, oc) of a depthwise convolution:
\* output channel oc reads input channel oc / depth_multiplier only.
DepthwiseAcc(P, n, oy, ox, oc) ==
  LET KH == P.filter_shape[2]
      KW == P.filter_shape[3]
      depth_multiplier == P.filter_shape[4] \div P.input_shape[4]
      ic == oc \div depth_multiplier
      term == [k \in 1..(KH * KW) |->
                 LET kx == (k - 1) % KW
                     ky == (k - 1) \div KW
                     iy == oy * P.stride - P.pad + ky
                     ix == ox * P.stride - P.pad + kx
                 IN IF iy >= 0 /\ iy < P.input_shape[2]
                         /\ ix >= 0 /\ ix < P.input_shape[3]
                      THEN P.filter[Offset(P.filter_shape, 0, ky, kx, oc)]
                             * (P.input[Offset(P.input_shape, n, iy, ix, ic)]
                                  + P.input_offset)
                      ELSE 0]
  IN SumTo(term, KH * KW)

\* Requantization stage of one accumulator for output channel oc: bias,
\* the channel's multiplier/shift pair, output offset, activation clamp.
Requantize(P, acc, oc) ==
  LET biased == IF P.bias = <<>> THEN acc ELSE acc + P.bias[oc + 1]
      scaled == IF P.acc64
                  THEN MultiplyByQuantizedMultiplier64(
                         biased, P.multiplier[oc + 1], P.shift[oc + 1])
                  ELSE MultiplyByQuantizedMultiplier(
                         biased, P.multiplier[oc + 1], P.shift[oc + 1])
  IN Clamp(scaled + P.output_offset, P.act_min, P.act_max)

\* Float stage: bias and activation clamp, no rescaling.
FloatActivation(P, acc, oc) ==
  Clamp(IF P.bias = <<>> THEN acc ELSE acc + P.bias[oc + 1],
        P.act_min, P.act_max)

\* Coordinates of flat output index i (from 1).
OutN(shape, i) == (i - 1) \div (shape[2] * shape[3] * shape[4])
OutY(shape, i) == ((i - 1) \div (shape[3] * shape[4])) % shape[2]
OutX(shape, i) == ((i - 1) \div shape[4]) % shape[3]
OutC(shape, i) == (i - 1) % shape[4]

\* reference_integer_ops::ConvPerChannel (8-bit and 16-bit input).
ConvPerChannel(P) ==
  [i \in 1..FlatSize(P.output_shape) |->
     Requantize(P, ConvAcc(P, OutN(P.output_shape, i), OutY(P.output_shape, i),
                           OutX(P.output_shape, i), OutC(P.output_shape, i)),
                OutC(P.output_shape, i))]

\* reference_integer_ops::DepthwiseConvPerChannel.
DepthwiseConvPerChannel(P) ==
  [i \in 1..FlatSize(P.output_shape) |->
     Requantize(P, DepthwiseAcc(P, OutN(P.output_shape, i),
                                OutY(P.output_shape, i),
                                OutX(P.output_shape, i),
                                OutC(P.output_shape, i)),
                OutC(P.output_shape, i))]

\* The packed-weight kernels unpack the filter into the scratch buffer and
\* run the 8-bit kernel on it.
ConvPerChannelWithPackedInt4Weights(P) ==
  ConvPerChannel([P EXCEPT !.filter =
    UnpackDenseInt4IntoInt8(P.filter, FlatSize(P.filter_shape))])
DepthwiseConvPerChannelWithPackedInt4Weights(P) ==
  DepthwiseConvPerChannel([P EXCEPT !.filter =
    UnpackDenseInt4IntoInt8(P.filter, FlatSize(P.filter_shape))])

\* reference_ops::Conv and reference_ops::DepthwiseConv on float tensors
\* (tensor contents are whole numbers, on which float arithmetic is exact).
ConvFloat(P) ==
  [i \in 1..FlatSize(P.output_shape) |->
     FloatActivation(P, ConvAcc(P, OutN(P.output_shape, i),
                                OutY(P.output_shape, i),
                                OutX(P.output_shape, i),
                                OutC(P.output_shape, i)),
                     OutC(P.output_shape, i))]
DepthwiseConvFloat(P) ==
  [i \in 1..FlatSize(P.output_shape) |->
     FloatActivation(P, DepthwiseAcc(P, OutN(P.output_shape, i),
                                     OutY(P.output_shape, i),
                                     OutX(P.output_shape, i),
                                     OutC(P.output_shape, i)),
                     OutC(P.output_shape, i))]

(***************************************************************************)
(* conv.cc Eval                                                            *)
(***************************************************************************)
is_1x1_kernel(c) == c.filter_shape[2] = 1 /\ c.filter_shape[3] = 1
is_expansion(c) == is_1x1_kernel(c) /\ c.output_shape[4] > c.input_shape[4]
is_projection(c) == is_1x1_kernel(c) /\ c.output_shape[4] < c.input_shape[4]
is_target_layer(c, counter) == is_expansion(c) /\ counter = TargetBlock

\* The expansion dump reads DumpLen int8 elements of input and of filter.
ConvDumpOutOfBounds(c) ==
  \/ TensorBytes(c.input_shape, c.input_type) < DumpLen
  \/ TensorBytes(c.filter_shape, c.filter_type) < DumpLen

\* The type check without its comparison of input and output type.
ConvTypeCheck_NoOutputCheck(c) ==
  \/ c.input_type = c.filter_type
  \/ c.input_type = kTfLiteInt16 /\ c.filter_type = kTfLiteInt8
  \/ c.input_type = kTfLiteInt8 /\ c.filter_type = kTfLiteInt4

\* TF_LITE_ENSURE_EQ and TF_LITE_ENSURE_MSG ahead of the switch.
ConvTypeCheck(c) ==
  /\ c.input_type = c.output_type
  /\ \/ c.input_type = c.filter_type
     \/ c.input_type = kTfLiteInt16 /\ c.filter_type = kTfLiteInt8
     \/ c.input_type = kTfLiteInt8 /\ c.filter_type = kTfLiteInt4

Ran(path) ==
  [status |-> kTfLiteOk, path |-> path, null_bias_read |-> FALSE,
   null_scratch |-> FALSE]
Failed ==
  [status |-> kTfLiteError, path |-> "none", null_bias_read |-> FALSE,
   null_scratch |-> FALSE]
Faulted ==
  [status |-> Crash, path |-> "none", null_bias_read |-> FALSE,
   null_scratch |-> FALSE]

\* The packed-weight kernel is handed whatever GetScratchBuffer returned.
\* With a null buffer the kernel's unpacking writes through a null pointer:
\* the store faults, or goes through and the kernel completes.
PackedKernel(c, path) ==
  IF c.scratch
    THEN {Ran(path)}
    ELSE {[Ran(path) EXCEPT !.null_scratch = TRUE],
          [Faulted EXCEPT !.null_scratch = TRUE, !.path = path]}

\* switch (input->type) of conv.cc: the set of outcomes of the dispatch.
\* bias->type is read through a null pointer when the bias is absent: the
\* load faults, or yields some tag and the switch goes on with it.
ConvSwitch(c) ==
  CASE c.input_type = kTfLiteFloat32 -> {Ran("Conv<float>")}
    [] c.input_type = kTfLiteInt16 ->
         IF c.bias_type = nullptr
           THEN {[o EXCEPT !.null_bias_read = TRUE] :
                   o \in {Faulted, Failed,
                          Ran("ConvPerChannel<int16,int32>"),
                          Ran("ConvPerChannel<int16,int64>")}}
           ELSE CASE c.bias_type = kTfLiteInt32 ->
                       {Ran("ConvPerChannel<int16,int32>")}
                  [] c.bias_type = kTfLiteInt64 ->
                       {Ran("ConvPerChannel<int16,int64>")}
                  [] OTHER -> {Failed}
    [] c.input_type = kTfLiteInt8 ->
         CASE c.filter_type = kTfLiteInt4 ->
                PackedKernel(c, "ConvPerChannelWithPackedInt4Weights")
           [] c.filter_type = kTfLiteInt8 -> {Ran("ConvPerChannel<int8>")}
           [] OTHER -> {Failed}
    [] OTHER -> {Failed}

\* The kernel arguments with the pair of the first channel handed over for
\* every channel (a per-tensor multiplier and shift).
QuantizedArgs_FirstChannel(c, zero_points, acc64) ==
  [input_shape |-> c.input_shape, input |-> c.data.input,
   filter_shape |-> c.filter_shape, filter |-> c.data.filter,
   bias |-> IF c.bias_type = nullptr THEN <<>> ELSE c.data.bias,
   output_shape |-> c.output_shape,
   multiplier |-> [ch \in 1..c.output_shape[4] |->
                     c.data.per_channel_output_multiplier[1]],
   shift |-> [ch \in 1..c.output_shape[4] |->
                c.data.per_channel_output_shift[1]],
   input_offset |-> IF zero_points THEN -c.data.input_zero_point ELSE 0,
   output_offset |-> IF zero_points THEN c.data.output_zero_point ELSE 0,
   act_min |-> c.data.output_activation_min,
   act_max |-> c.data.output_activation_max,
   stride |-> c.data.stride, pad |-> c.data.padding, acc64 |-> acc64]

\* The arguments Eval hands to a quantized kernel: ConvParamsQuantized /
\* DepthwiseConvParamsQuantized(params, data), the per-channel tables of
\* data, and shape and buffer of each tensor (an absent bias gives an empty
\* shape and a null buffer).
QuantizedArgs(c, zero_points, acc64) ==
  [input_shape |-> c.input_shape, input |-> c.data.input,
   filter_shape |-> c.filter_shape, filter |-> c.data.filter,
   bias |-> IF c.bias_type = nullptr THEN <<>> ELSE c.data.bias,
   output_shape |-> c.output_shape,
   multiplier |-> c.data.per_channel_output_multiplier,
   shift |-> c.data.per_channel_output_shift,
   input_offset |-> IF zero_points THEN -c.data.input_zero_point ELSE 0,
   output_offset |-> IF zero_points THEN c.data.output_zero_point ELSE 0,
   act_min |-> c.data.output_activation_min,
   act_max |-> c.data.output_activation_max,
   stride |-> c.data.stride, pad |-> c.data.padding, acc64 |-> acc64]

\* Output buffer after conv.cc Eval ran the typed kernel `path` on call c
\* (tracked for calls that carry tensor contents).
ConvKernelOutput(path, c) ==
  IF c.data.kind = "none" THEN <<>>
  ELSE CASE path = "Conv<float>" -> ConvFloat(QuantizedArgs(c, FALSE, FALSE))
         [] path = "ConvPerChannel<int16,int32>" ->
              ConvPerChannel(QuantizedArgs(c, FALSE, FALSE))
         [] path = "ConvPerChannel<int16,int64>" ->
              ConvPerChannel(QuantizedArgs(c, FALSE, TRUE))
         [] path = "ConvPerChannelWithPackedInt4Weights" ->
              ConvPerChannelWithPackedInt4Weights(QuantizedArgs(c, TRUE, FALSE))
         [] path = "ConvPerChannel<int8>" ->
              ConvPerChannel(QuantizedArgs(c, TRUE, FALSE))
         [] OTHER -> <<>>

\* Output buffer after depthwise_conv.cc Eval ran the typed kernel `path`.
DepthwiseKernelOutput(path, c) ==
  IF c.data.kind = "none" THEN <<>>
  ELSE CASE path = "DepthwiseConv<float>" ->
              DepthwiseConvFloat(QuantizedArgs(c, FALSE, FALSE))
         [] path = "DepthwiseConvPerChannel<int8>" ->
              DepthwiseConvPerChannel(QuantizedArgs(c, TRUE, FALSE))
         [] path = "DepthwiseConvPerChannelWithPackedInt4Weights" ->
              DepthwiseConvPerChannelWithPackedInt4Weights(
                QuantizedArgs(c, TRUE, FALSE))
         [] OTHER -> <<>>

\* The scratch buffer when Eval hands the kernel another buffer in its
\* place: nothing is unpacked into it.
ScratchAfter_Unused(path, c) == <<>>

\* Scratch buffer after the invocation: the packed-weight kernels fill it
\* with the unpacked filter.
ScratchAfter(path, c) ==
  IF c.data.kind # "none"
       /\ path \in {"ConvPerChannelWithPackedInt4Weights",
                    "DepthwiseConvPerChannelWithPackedInt4Weights"}
    THEN UnpackDenseInt4IntoInt8(c.data.filter, FlatSize(c.filter_shape))
    ELSE <<>>

\* One outcome of an invocation: what it returned and did, and the statics
\* it leaves behind.
Outcome(o, oob, pre, post, counter, printed, c) ==
  [status |-> o.status, path |-> o.path,
   null_bias_read |-> o.null_bias_read, null_scratch |-> o.null_scratch,
   oob_read |-> oob, pre_printed |-> pre, post_printed |-> post,
   bn5_printed |-> FALSE,
   output_written |-> o.path # "none",
   output |-> IF o.status # kTfLiteOk THEN <<>>
              ELSE IF c.op = "CONV_2D" THEN ConvKernelOutput(o.path, c)
              ELSE DepthwiseKernelOutput(o.path, c),
   scratch_after |-> IF o.status = kTfLiteOk /\ c.scratch
                       THEN ScratchAfter(o.path, c) ELSE <<>>,
   counter |-> counter, printed |-> printed]

\* Eval of conv.cc from the statics (counter, printed): the set of outcomes.
ConvEvalOutcomes(c, counter, printed) ==
  LET dump == is_target_layer(c, counter) /\ ~printed
      oob == dump /\ ConvDumpOutOfBounds(c)
      \* the out-of-bounds loads of the dump fault ...
      fault == IF oob
                 THEN {Outcome(Faulted, TRUE, TRUE, FALSE, counter, printed, c)}
                 ELSE {}
      \* ... or return and Eval goes on
      rest ==
        IF ~ConvTypeCheck(c)
          THEN {Outcome(Failed, oob, dump, FALSE, counter, printed, c)}
          ELSE {IF o.status = kTfLiteOk
                  THEN Outcome(o, oob, dump, dump,
                               IF is_projection(c) THEN counter + 1
                                                   ELSE counter,
                               printed \/ dump, c)
                  ELSE Outcome(o, oob, dump, FALSE, counter, printed, c) :
                o \in ConvSwitch(c)}
  IN fault \cup rest

(***************************************************************************)
(* depthwise_conv.cc Eval                                                  *)
(***************************************************************************)
\* print_tensor_as_h reads FlatSize int8 elements of the tensor;
\* the bias overload reads FlatSize int32 elements.
PrintTensorOutOfBounds(shape, type) == FlatSize(shape) > TensorBytes(shape, type)
PrintBiasOutOfBounds(shape, type) == 4 * FlatSize(shape) > TensorBytes(shape, type)

DepthwiseDumpOutOfBounds(c) ==
  \/ PrintTensorOutOfBounds(c.input_shape, c.input_type)
  \/ PrintTensorOutOfBounds(c.filter_shape, c.filter_type)
  \/ c.bias_type # nullptr
       /\ PrintBiasOutOfBounds(<<1, 1, 1, c.output_shape[4]>>, c.bias_type)

\* The switch of depthwise_conv.cc with the float kernel called in the
\* 8-bit filter case.
DepthwiseSwitch_FloatKernel(c) ==
  CASE c.input_type = kTfLiteFloat32 -> {Ran("DepthwiseConv<float>")}
    [] c.input_type = kTfLiteInt8 ->
         CASE c.filter_type = kTfLiteInt8 -> {Ran("DepthwiseConv<float>")}
           [] c.filter_type = kTfLiteInt4 ->
                PackedKernel(c, "DepthwiseConvPerChannelWithPackedInt4Weights")
           [] OTHER -> {Failed}
    [] OTHER -> {Failed}

\* switch (input->type) of depthwise_conv.cc.
DepthwiseSwitch(c) ==
  CASE c.input_type = kTfLiteFloat32 -> {Ran("DepthwiseConv<float>")}
    [] c.input_type = kTfLiteInt8 ->
         CASE c.filter_type = kTfLiteInt8 ->
                {Ran("DepthwiseConvPerChannel<int8>")}
           [] c.filter_type = kTfLiteInt4 ->
                PackedKernel(c, "DepthwiseConvPerChannelWithPackedInt4Weights")
           [] OTHER -> {Failed}
    [] OTHER -> {Failed}

\* Eval of depthwise_conv.cc from the static counter: the set of outcomes.
DepthwiseEvalOutcomes(c, counter) ==
  LET dump == counter = TargetBlock
      oob == dump /\ DepthwiseDumpOutOfBounds(c)
      fault == IF oob
                 THEN {[Outcome(Faulted, TRUE, FALSE, FALSE, counter, FALSE, c)
                          EXCEPT !.bn5_printed = TRUE]}
                 ELSE {}
      rest == {[Outcome(o, oob, FALSE, FALSE, counter + 1, FALSE, c)
                  EXCEPT !.bn5_printed = dump] : o \in DepthwiseSwitch(c)}
  IN fault \cup rest

(***************************************************************************)
(* Invocations                                                             *)
(***************************************************************************)
ResultOf(o) ==
  [status |-> o.status, path |-> o.path,
   null_bias_read |-> o.null_bias_read, null_scratch |-> o.null_scratch,
   oob_read |-> o.oob_read, pre_printed |-> o.pre_printed,
   post_printed |-> o.post_printed, bn5_printed |-> o.bn5_printed,
   output_written |-> o.output_written, output |-> o.output,
   scratch_after |-> o.scratch_after]

Idle == call.op = "none" /\ ~crashed

\* The statics of the first program instance.
Statics ==
  [conv_bn_counter |-> conv_bn_counter,
   has_printed_debug_data |-> has_printed_debug_data,
   dw_bn_counter |-> dw_bn_counter]

\* Eval of node c by an instance whose statics are st: the set of outcomes,
\* each with the statics it leaves.
InstanceOutcomes(c, st) ==
  IF c.op = "CONV_2D"
    THEN {[res |-> ResultOf(o), conv_bn_counter |-> o.counter,
           has_printed_debug_data |-> o.printed,
           dw_bn_counter |-> st.dw_bn_counter] :
          o \in ConvEvalOutcomes(c, st.conv_bn_counter,
                                 st.has_printed_debug_data)}
    ELSE {[res |-> ResultOf(o), conv_bn_counter |-> st.conv_bn_counter,
           has_printed_debug_data |-> st.has_printed_debug_data,
           dw_bn_counter |-> o.counter] :
          o \in DepthwiseEvalOutcomes(c, st.dw_bn_counter)}

\* The exploration stops an instance's counters at MaxCounter.
WithinCounters(c, st) ==
  IF c.op = "CONV_2D"
    THEN is_projection(c) => st.conv_bn_counter < MaxCounter
    ELSE st.dw_bn_counter < MaxCounter

\* The first instance evaluates node c.
EvalBody(c) ==
  /\ Idle
  /\ WithinCounters(c, Statics)
  /\ (c.op = "CONV_2D" /\ is_target_layer(c, conv_bn_counter)
        /\ ~has_printed_debug_data) => expansion_pre_dumps < MaxDumps
  /\ \E o \in InstanceOutcomes(c, Statics) :
       /\ call' = c
       /\ result' = o.res
       /\ conv_bn_counter' = o.conv_bn_counter
       /\ has_printed_debug_data' = o.has_printed_debug_data
       /\ dw_bn_counter' = o.dw_bn_counter
       /\ expansion_pre_dumps' =
            expansion_pre_dumps + (IF o.res.pre_printed THEN 1 ELSE 0)
       /\ expansion_post_dumps' =
            expansion_post_dumps + (IF o.res.post_printed THEN 1 ELSE 0)
       /\ bn5_dumps' = bn5_dumps + (IF o.res.bn5_printed THEN 1 ELSE 0)
       /\ crashed' = (o.res.status = Crash)

\* A second program instance (its own statics) evaluates node c; its call
\* and result are kept when `observed`.
ShadowStep(c, observed) ==
  /\ shadow.live
  /\ ~shadow.crashed
  /\ WithinCounters(c, shadow)
  /\ \E o \in InstanceOutcomes(c, shadow) :
       shadow' = [live |-> TRUE,
                  conv_bn_counter |-> o.conv_bn_counter,
                  has_printed_debug_data |-> o.has_printed_debug_data,
                  dw_bn_counter |-> o.dw_bn_counter,
                  crashed |-> (o.res.status = Crash),
                  call |-> IF observed THEN c ELSE NoCall,
                  result |-> IF observed THEN o.res ELSE NoResult]

ConvEval(c) ==
  /\ c.op = "CONV_2D"
  /\ EvalBody(c)
  /\ UNCHANGED shadow

DepthwiseConvEval(c) ==
  /\ c.op = "DEPTHWISE_CONV_2D"
  /\ EvalBody(c)
  /\ UNCHANGED shadow

\* The second instance alone evaluates node c (its history moves on).
ShadowEval(c) ==
  /\ Idle
  /\ ShadowStep(c, FALSE)
  /\ UNCHANGED <<conv_bn_counter, has_printed_debug_data, dw_bn_counter,
                 expansion_pre_dumps, expansion_post_dumps, bn5_dumps,
                 crashed, call, result>>

\* Both instances evaluate a node: cA the first, cB the second.
PairEval(cA, cB) ==
  /\ EvalBody(cA)
  /\ ShadowStep(cB, TRUE)

\* The status reaches the graph executor, which goes on to its next node.
Return ==
  /\ call.op # "none"
  /\ ~crashed
  /\ call' = NoCall
  /\ result' = NoResult
  /\ shadow' = IF shadow.live
                 THEN [shadow EXCEPT !.call = NoCall, !.result = NoResult]
                 ELSE shadow
  /\ UNCHANGED <<conv_bn_counter, has_printed_debug_data, dw_bn_counter,
                 expansion_pre_dumps, expansion_post_dumps, bn5_dumps,
                 crashed>>

\* Shapes of the nodes the dispatch is explored with (NHWC / OHWI).
ConvShapes ==
  {[input |-> <<1, 1, 1, 16>>, filter |-> <<32, 1, 1, 16>>, output |-> <<1, 1, 1, 32>>],
   [input |-> <<1, 1, 1, 8>>, filter |-> <<16, 1, 1, 8>>, output |-> <<1, 1, 1, 16>>],
   [input |-> <<1, 1, 1, 16>>, filter |-> <<8, 1, 1, 16>>, output |-> <<1, 1, 1, 8>>],
   [input |-> <<1, 3, 3, 16>>, filter |-> <<16, 3, 3, 16>>, output |-> <<1, 1, 1, 16>>]}
DepthwiseShapes ==
  {[input |-> <<1, 3, 3, 16>>, filter |-> <<1, 3, 3, 16>>, output |-> <<1, 1, 1, 16>>]}

\* GetScratchBuffer is asked only for packed filters; it may yield no buffer.
ScratchChoices(filter_type) ==
  IF filter_type = kTfLiteInt4 THEN BOOLEAN ELSE {TRUE}

Calls(op, shapes) ==
  {[op |-> op, input_type |-> it, filter_type |-> ft, bias_type |-> bt,
    output_type |-> ot, input_shape |-> sh.input, filter_shape |-> sh.filter,
    output_shape |-> sh.output, scratch |-> sc, data |-> NoData] :
     it \in DataTypes, ft \in DataTypes, bt \in BiasTypes, ot \in DataTypes,
     sh \in shapes, sc \in BOOLEAN}

ConvCalls ==
  {c \in Calls("CONV_2D", ConvShapes) : c.scratch \in ScratchChoices(c.filter_type)}
DepthwiseCalls ==
  {c \in Calls("DEPTHWISE_CONV_2D", DepthwiseShapes) :
     c.scratch \in ScratchChoices(c.filter_type)}

Init ==
  /\ conv_bn_counter = 0
  /\ has_printed_debug_data = FALSE
  /\ dw_bn_counter = 0
  /\ expansion_pre_dumps = 0
  /\ expansion_post_dumps = 0
  /\ bn5_dumps = 0
  /\ crashed = FALSE
  /\ call = NoCall
  /\ result = NoResult
  /\ shadow = NoShadow

Next ==
  \/ \E c \in ConvCalls : ConvEval(c)
  \/ \E c \in DepthwiseCalls : DepthwiseConvEval(c)
  \/ Return

Spec == Init /\ [][Next]_vars

(***************************************************************************)
(* The dispatch contract of the specification                              *)
(***************************************************************************)
\* The supported (input, filter, bias) representation triples.
SupportedTriples ==
  {<<kTfLiteFloat32, kTfLiteFloat32, kTfLiteFloat32>>,
   <<kTfLiteFloat32, kTfLiteFloat32, nullptr>>,
   <<kTfLiteInt8, kTfLiteInt8, kTfLiteInt32>>,
   <<kTfLiteInt8, kTfLiteInt8, nullptr>>,
   <<kTfLiteInt8, kTfLiteInt4, kTfLiteInt32>>,
   <<kTfLiteInt8, kTfLiteInt4, nullptr>>,
   <<kTfLiteInt16, kTfLiteInt8, kTfLiteInt32>>,
   <<kTfLiteInt16, kTfLiteInt8, kTfLiteInt64>>,
   <<kTfLiteInt16, kTfLiteInt8, nullptr>>}

Triple(c) == <<c.input_type, c.filter_type, c.bias_type>>
Invoked == call.op # "none"
TypedPaths ==
  {"Conv<float>", "ConvPerChannel<int16,int32>", "ConvPerChannel<int16,int64>",
   "ConvPerChannelWithPackedInt4Weights", "ConvPerChannel<int8>",
   "DepthwiseConv<float>", "DepthwiseConvPerChannel<int8>",
   "DepthwiseConvPerChannelWithPackedInt4Weights"}

\* C1: for both operators, an invocation with a supported (input, filter,
\* bias) triple and output type equal to input type runs one typed
\* computation path and returns kTfLiteOk.
C1_SupportedSucceeds ==
  (Invoked /\ Triple(call) \in SupportedTriples
     /\ call.output_type = call.input_type)
    => (result.status = kTfLiteOk /\ result.path \in TypedPaths)

\* C2: for both operators, an invocation whose (input, filter, bias) triple
\* is not supported returns an error, runs no typed computation path and
\* leaves the output buffer untouched.
C2_UnsupportedRejected ==
  (Invoked /\ Triple(call) \notin SupportedTriples)
    => (result.status = kTfLiteError /\ result.path = "none"
          /\ ~result.output_written)

\* C3: with an absent bias on a supported combination, Eval never reads a
\* field of the absent bias tensor and returns kTfLiteOk.
C3_AbsentBiasValid ==
  (Invoked /\ call.bias_type = nullptr /\ Triple(call) \in SupportedTriples
     /\ call.output_type = call.input_type)
    => (~result.null_bias_read /\ result.status = kTfLiteOk)

C9_MissingScratchRejected ==
  (Invoked /\ call.input_type = kTfLiteInt8 /\ call.filter_type = kTfLiteInt4
     /\ call.output_type = kTfLiteInt8 /\ ~call.scratch)
    => (result.status = kTfLiteError /\ ~result.null_scratch)

\* C10: over any sequence of invocations, the expansion dump of Conv (its
\* pre-computation part and its post-computation part) and the BN 5 dump
\* of DepthwiseConv are each printed during at most one invocation.
C10_DumpsAtMostOnce ==
  /\ expansion_pre_dumps <= 1
  /\ expansion_post_dumps <= 1
  /\ bn5_dumps <= 1

(***************************************************************************)
(* Invocations that carry tensor contents                                  *)
(***************************************************************************)
Uniform(n, v) == [i \in 1..n |-> v]

\* A byte of a packed 4-bit buffer (as int8) holding nibbles lo and hi.
PackNibbles(lo, hi) ==
  LET u == (hi % 16) * 16 + (lo % 16)
  IN IF u >= 128 THEN u - 256 ELSE u

\* Activation bounds of a node without fused activation.
ActivationMin(type) ==
  CASE type = kTfLiteInt8 -> -128
    [] type = kTfLiteInt16 -> -32768
    [] OTHER -> -Pow2(20)
ActivationMax(type) ==
  CASE type = kTfLiteInt8 -> 127
    [] type = kTfLiteInt16 -> 32767
    [] OTHER -> Pow2(20)

\* Buffer of a filter whose weights all equal w.
FilterBuffer(type, shape, w) ==
  IF type = kTfLiteInt4
    THEN Uniform(TensorBytes(shape, type), PackNibbles(w, w))
    ELSE Uniform(FlatSize(shape), w)

\* A node with uniform tensors: input value v, weight w, bias b, and the
\* pair (m, s) as multiplier and shift of every output channel.
Node(op, triple, shapes, scratch, v, w, b, m, s) ==
  [op |-> op, input_type |-> triple[1], filter_type |-> triple[2],
   bias_type |-> triple[3], output_type |-> triple[1],
   input_shape |-> shapes.input, filter_shape |-> shapes.filter,
   output_shape |-> shapes.output, scratch |-> scratch,
   data |-> [kind |-> "tensors",
             input |-> Uniform(FlatSize(shapes.input), v),
             filter |-> FilterBuffer(triple[2], shapes.filter, w),
             bias |-> IF triple[3] = nullptr THEN <<>>
                      ELSE Uniform(shapes.output[4], b),
             per_channel_output_multiplier |-> Uniform(shapes.output[4], m),
             per_channel_output_shift |-> Uniform(shapes.output[4], s),
             input_zero_point |-> 0, output_zero_point |-> 0,
             output_activation_min |-> ActivationMin(triple[1]),
             output_activation_max |-> ActivationMax(triple[1]),
             stride |-> 1, padding |-> 0]]

\* 0x40000000 (0.5) and 0x60000000 (0.75) in the multiplier's fixed point.
Multipliers == {Pow2(30), 3 * Pow2(29)}
Shifts == {0, -1}

DepthwiseShape(channels) ==
  [input |-> <<1, 1, 1, channels>>, filter |-> <<1, 1, 1, channels>>,
   output |-> <<1, 1, 1, channels>>]
ConvShape(input_depth, output_depth) ==
  [input |-> <<1, 1, 1, input_depth>>,
   filter |-> <<output_depth, 1, 1, input_depth>>,
   output |-> <<1, 1, 1, output_depth>>]

\* Depthwise nodes over 16 channels and two-channel nodes of both
\* operators, on every supported triple.
ScenarioNodes ==
  {Node("DEPTHWISE_CONV_2D", t, DepthwiseShape(16), TRUE, v, 1, 0, m, s) :
     t \in SupportedTriples, v \in {5, -5}, m \in Multipliers, s \in Shifts}
  \cup
  {Node("CONV_2D", t, ConvShape(2, 2), TRUE, v, 1, 0, m, 0) :
     t \in SupportedTriples, v \in {5, -5}, m \in Multipliers}

\* Packed filters of two weights in one byte, for each of the 256 bytes.
PackedBytes == (-128)..127
PackedNodes ==
  {[Node(op, <<kTfLiteInt8, kTfLiteInt4, kTfLiteInt32>>, sh, TRUE,
         5, 0, 0, Pow2(30), 0) EXCEPT !.data.filter = <<byte>>] :
     op \in {"CONV_2D"}, sh \in {ConvShape(2, 1)}, byte \in PackedBytes}
  \cup
  {[Node(op, <<kTfLiteInt8, kTfLiteInt4, kTfLiteInt32>>, sh, TRUE,
         5, 0, 0, Pow2(30), 0) EXCEPT !.data.filter = <<byte>>] :
     op \in {"DEPTHWISE_CONV_2D"}, sh \in {DepthwiseShape(2)},
     byte \in PackedBytes}

KernelNodes == ScenarioNodes \cup PackedNodes

NextKernel ==
  \/ \E c \in KernelNodes : ConvEval(c)
  \/ \E c \in KernelNodes : DepthwiseConvEval(c)
  \/ Return

SpecKernel == Init /\ [][NextKernel]_vars

\* Re-packing of an unpacked buffer: nibbles 2i-1 and 2i into byte i.
Repack(unpacked) ==
  [i \in 1..(Len(unpacked) \div 2) |->
     PackNibbles(unpacked[2 * i - 1], unpacked[2 * i])]

\* The scenario node: depthwise, int8 input 1x1x1x16 all 5 (zero point 0),
\* 1x1 filter with weight 1 for each of the 16 channels, bias all 0,
\* multiplier 0x40000000 and shift 0 on every channel, output zero point
\* 0, activation bounds [-128, 127].
ScenarioNode ==
  Node("DEPTHWISE_CONV_2D", <<kTfLiteInt8, kTfLiteInt8, kTfLiteInt32>>,
       DepthwiseShape(16), TRUE, 5, 1, 0, Pow2(30), 0)

\* C6 as stated: on the scenario node the int8 path writes 2 to every
\* output channel.
C6_ScenarioWritesTwo ==
  (Invoked /\ call = ScenarioNode)
    => (result.status = kTfLiteOk /\ result.output = Uniform(16, 2))

\* C6 amended: on the scenario node the int8 path writes 3 to every output
\* channel (5 * 0.5 = 2.5, rounded half away from zero).
C6_ScenarioWritesThree ==
  (Invoked /\ call = ScenarioNode)
    => /\ result.status = kTfLiteOk
       /\ result.path = "DepthwiseConvPerChannel<int8>"
       /\ result.output = Uniform(16, 3)

\* Witness of C6: Eval has run the scenario node.
C6_Witness ==
  ~(Invoked /\ call = ScenarioNode /\ result.status = kTfLiteOk
      /\ Len(result.output) = 16)

\* C8: for each byte of a packed 4-bit filter, the two values the
\* packed-weight path unpacks into the scratch buffer are sign-extended
\* nibbles in [-8, 7], in flat element order, and re-packing them
\* reproduces the byte.
C8_UnpackRoundTrips ==
  (Invoked /\ call \in PackedNodes /\ result.status = kTfLiteOk)
    => /\ Len(result.scratch_after) = 2
       /\ \A i \in 1..2 : result.scratch_after[i] \in (-8)..7
       /\ Repack(result.scratch_after) = call.data.filter

\* Witness of C8: a byte with both nibbles negative has been unpacked.
C8_Witness ==
  ~(Invoked /\ call \in PackedNodes /\ result.status = kTfLiteOk
      /\ call.data.filter = <<-1>>
      /\ result.scratch_after = <<-1, -1>>)

(***************************************************************************)
(* Two program instances side by side                                      *)
(***************************************************************************)
InitPair ==
  /\ conv_bn_counter = 0
  /\ has_printed_debug_data = FALSE
  /\ dw_bn_counter = 0
  /\ expansion_pre_dumps = 0
  /\ expansion_post_dumps = 0
  /\ bn5_dumps = 0
  /\ crashed = FALSE
  /\ call = NoCall
  /\ result = NoResult
  /\ shadow = [live |-> TRUE, conv_bn_counter |-> 0,
               has_printed_debug_data |-> FALSE, dw_bn_counter |-> 0,
               crashed |-> FALSE, call |-> NoCall, result |-> NoResult]

\* Nodes the two histories are built from: a 1x1 expansion, a 1x1
\* projection, a 16-bit node without bias, an expansion whose output type
\* differs from its input type, and a depthwise node.
PairNodes ==
  {Node("CONV_2D", <<kTfLiteInt8, kTfLiteInt8, kTfLiteInt32>>,
        ConvShape(1, 2), TRUE, 5, 1, 0, Pow2(30), 0),
   Node("CONV_2D", <<kTfLiteInt8, kTfLiteInt8, kTfLiteInt32>>,
        ConvShape(2, 1), TRUE, 5, 1, 0, Pow2(30), 0),
   Node("CONV_2D", <<kTfLiteInt16, kTfLiteInt8, nullptr>>,
        ConvShape(2, 2), TRUE, 5, 1, 0, Pow2(30), 0),
   [Node("CONV_2D", <<kTfLiteInt8, kTfLiteInt8, kTfLiteInt32>>,
         ConvShape(1, 2), TRUE, 5, 1, 0, Pow2(30), 0)
      EXCEPT !.output_type = kTfLiteInt16],
   Node("DEPTHWISE_CONV_2D", <<kTfLiteInt8, kTfLiteInt8, kTfLiteInt32>>,
        DepthwiseShape(2), TRUE, 5, 1, 0, Pow2(30), 0)}

NextPair ==
  \/ \E c \in PairNodes : ConvEval(c)
  \/ \E c \in PairNodes : DepthwiseConvEval(c)
  \/ \E c \in PairNodes : ShadowEval(c)
  \/ \E c \in PairNodes : PairEval(c, c)
  \/ Return

SpecPair == InitPair /\ [][NextPair]_vars

Paired == Invoked /\ shadow.live /\ shadow.call.op # "none"

\* C5: whatever the histories of two instances (their conv_bn_counter,
\* has_printed_debug_data and dw_bn_counter), an Eval call with identical
\* inputs selects the same path, returns the same status and writes the
\* same output buffer in both.
C5_HistoryIndependent ==
  (Paired /\ shadow.call = call)
    => /\ result.path = shadow.result.path
       /\ result.status = shadow.result.status
       /\ result.output = shadow.result.output

\* Integer nodes with two output channels, on every integer triple.
IntegerTriples ==
  {t \in SupportedTriples : t[1] # kTfLiteFloat32}
ChannelBaseNodes ==
  {Node(op, t, sh, sc, v, 1, 1, Pow2(30), 0) :
     op \in {"CONV_2D"}, t \in IntegerTriples, sh \in {ConvShape(3, 2)},
     sc \in BOOLEAN, v \in {5, -5}}
  \cup
  {Node(op, t, sh, sc, v, 1, 1, Pow2(30), 0) :
     op \in {"DEPTHWISE_CONV_2D"}, t \in IntegerTriples,
     sh \in {DepthwiseShape(2)}, sc \in BOOLEAN, v \in {5, -5}}

\* Node c with the multiplier/shift pair of channel ch replaced.
WithChannel(c, ch, m, s) ==
  [c EXCEPT !.data.per_channel_output_multiplier[ch] = m,
            !.data.per_channel_output_shift[ch] = s]

\* Pairs of nodes that differ in the pair of one output channel at most.
ChannelPairs ==
  {<<c, WithChannel(c, ch, m, s)>> :
     c \in {b \in ChannelBaseNodes : b.scratch \in ScratchChoices(b.filter_type)},
     ch \in 1..2, m \in Multipliers, s \in Shifts}

NextChannel ==
  \/ \E p \in ChannelPairs : PairEval(p[1], p[2])
  \/ Return

SpecChannel == InitPair /\ [][NextChannel]_vars

IntegerPaths ==
  TypedPaths \ {"Conv<float>", "DepthwiseConv<float>"}

\* Output channels whose multiplier or shift differs between two nodes.
ChangedChannels(cA, cB) ==
  {ch \in 1..cA.output_shape[4] :
     \/ cA.data.per_channel_output_multiplier[ch]
          # cB.data.per_channel_output_multiplier[ch]
     \/ cA.data.per_channel_output_shift[ch]
          # cB.data.per_channel_output_shift[ch]}

\* The two nodes are equal but for their per-channel tables.
DifferOnlyInTables(cA, cB) ==
  /\ cA.data.kind = "tensors"
  /\ cB.data.kind = "tensors"
  /\ cB = [cA EXCEPT !.data.per_channel_output_multiplier =
                        cB.data.per_channel_output_multiplier,
                     !.data.per_channel_output_shift =
                        cB.data.per_channel_output_shift]

BothRan ==
  /\ result.status = kTfLiteOk
  /\ shadow.result.status = kTfLiteOk
  /\ result.path = shadow.result.path
  /\ result.path \in IntegerPaths

\* C7: on every integer path, two invocations that differ only in the
\* multiplier and/or shift of some output channels write equal values at
\* every position of every other channel.
C7_PerChannelIndependence ==
  (Paired /\ DifferOnlyInTables(call, shadow.call) /\ BothRan)
    => /\ Len(result.output) = FlatSize(call.output_shape)
       /\ Len(shadow.result.output) = FlatSize(call.output_shape)
       /\ \A i \in 1..FlatSize(call.output_shape) :
            (OutC(call.output_shape, i) + 1)
                \notin ChangedChannels(call, shadow.call)
              => result.output[i] = shadow.result.output[i]

\* Witness of C7: the pair of channel 1 alone was changed, both
\* invocations ran, and the outputs differ at channel 1.
C7_Witness ==
  ~(Paired /\ DifferOnlyInTables(call, shadow.call) /\ BothRan
      /\ ChangedChannels(call, shadow.call) = {1}
      /\ result.output[1] # shadow.result.output[1]
      /\ result.output[2] = shadow.result.output[2])

(***************************************************************************)
(* Reads of the debug dumps                                                *)
(***************************************************************************)
\* The invocation in progress printed a dump that reads tensor buffers.
DumpEmitted == Invoked /\ (result.pre_printed \/ result.bn5_printed)

\* C11: whenever an invocation emits a dump, every element the dump reads
\* lies inside the buffer of its tensor: the DumpLen int8 reads of input
\* and filter in Conv Eval and the FlatSize int8 reads per tensor of
\* print_tensor_as_h stay below the tensor's byte length.
C11_DumpReadsInBounds ==
  DumpEmitted
    => /\ ~result.oob_read
       /\ result.pre_printed
            => /\ DumpLen <= TensorBytes(call.input_shape, call.input_type)
               /\ DumpLen <= TensorBytes(call.filter_shape, call.filter_type)
       /\ result.bn5_printed
            => /\ FlatSize(call.input_shape)
                    <= TensorBytes(call.input_shape, call.input_type)
               /\ FlatSize(call.filter_shape)
                    <= TensorBytes(call.filter_shape, call.filter_type)

====
